---- MODULE Spec2Model ----
(* Model of apps/perms/models/asset_permission.py: the AssetPermission      *)
(* grant, its per-grant validity check, the bulk queryset filters and the   *)
(* user / asset / account resolution methods.                               *)
EXTENDS Integers, Sequences, FiniteSets, TLC

VARIABLES
    clock,        \* the value timezone.now() returns when it is read
    grants,       \* the AssetPermission table: grant id -> row
    pc,           \* position of the valid() call that is being built
    vq,           \* valid(): the queryset built so far and the instant it used
    validRes,     \* last result of valid()
    invalidRes,   \* last result of invalid()
    isValidRes,   \* last evaluation of the is_valid property
    qs,           \* the queryset a chain of filters has produced so far
    chain,        \* the filters applied to obtain qs, in order
    req,          \* the account names handed to filter_by_accounts
    members,      \* users_user_groups: group id -> ids of its users
    nodeAssets,   \* asset membership of each node (direct, not transitive)
    accountTable, \* the Account table in storage order, pk = position
    usersRes,     \* last result of get_all_users
    assetsRes,    \* last result of get_all_assets
    accountsRes   \* last result of get_all_accounts

timeVars == <<clock, pc, vq, validRes, invalidRes, isValidRes>>
chainVars == <<qs, chain, req>>
worldVars == <<members, nodeAssets, accountTable>>
resVars == <<usersRes, assetsRes, accountsRes>>
vars == <<grants, timeVars, chainVars, worldVars, resVars>>

\* ---------------------------------------------------------------- bounds
MaxTime == 2
MaxAccLen == 2
MaxReqLen == 2
MaxChain == 2
NumAccounts == 3

Instants == 0..MaxTime
Dates == 0..(MaxTime + 1)


\* ------------------------------------------------------- the data model
ALL == "@ALL"
AccountNames == {"admin", "root"}
SpecNames == AccountNames \cup {ALL}

Users == {"u1", "u2", "u3"}
Groups == {"G1", "G2"}
Assets == {"a1", "a2", "a3"}
Nodes == {"n1", "n2", "n3"}

\* rows of the User and Asset tables, in storage order
UserTable == <<"u1", "u2", "u3">>
AssetTable == <<"a1", "a2", "a3">>

\* Node.key: the path of the node in the tree, n2 is a child of n1
NodeKey == [n1 |-> <<1>>, n2 |-> <<1, 1>>, n3 |-> <<2>>]

\* Asset.name
AssetName == [a1 |-> "web", a2 |-> "db", a3 |-> "mail"]

\* collation order of the strings that occur in name columns
Rank == [admin |-> 1, db |-> 2, mail |-> 3, root |-> 4, web |-> 5]

Range(s) == {s[i] : i \in DOMAIN s}

SeqsUpTo(S, n) == UNION {[1..k -> S] : k \in 0..n}

\* the orders in which a query may hand back the members of S
Perms(S) ==
    {f \in [1..Cardinality(S) -> S] :
        \A i, j \in 1..Cardinality(S) : i # j => f[i] # f[j]}

\* an AssetPermission row
Grant(act, ds, de, accs, us, gs, as, ns) ==
    [is_active |-> act, date_start |-> ds, date_expired |-> de,
     accounts |-> accs, users |-> us, user_groups |-> gs,
     assets |-> as, nodes |-> ns]

\* rows that differ in the active flag and the validity window
TimeRows ==
    {Grant(act, ds, de, <<>>, {}, {}, {}, {}) :
        act \in BOOLEAN, ds \in Dates, de \in Dates}

\* rows that differ in the active flag and the account list
AccountRows ==
    {Grant(act, 0, MaxTime + 1, accs, {}, {}, {}, {}) :
        act \in BOOLEAN, accs \in SeqsUpTo(SpecNames, MaxAccLen)}

\* ------------------------------------------- AssetPermission properties
is_expired_strictless(g, now) ==
    IF g.date_expired >= now /\ now >= g.date_start THEN FALSE ELSE TRUE

is_expired(g, now) ==
    IF g.date_expired > now /\ now > g.date_start THEN FALSE ELSE TRUE

is_valid(g, now) ==
    IF ~is_expired(g, now) /\ g.is_active THEN TRUE ELSE FALSE

\* ------------------------------------------ AssetPermissionQuerySet
\* A queryset is the set of ids of the rows it selects.
get_queryset == DOMAIN grants

active(rows) == {id \in rows : grants[id].is_active = TRUE}

inactive(rows) == {id \in rows : grants[id].is_active = FALSE}

filter_date_start_lt(rows, t) == {id \in rows : grants[id].date_start < t}

filter_date_expired_gt(rows, t) == {id \in rows : grants[id].date_expired > t}

valid_lower_noactive(rows, t) == filter_date_start_lt(rows, t)

\* valid(), up to and including the first read of the clock
valid_lower(rows, t) == filter_date_start_lt(active(rows), t)

\* valid(), the second filter with the second read of the clock
valid_upper(rows, t) == filter_date_expired_gt(rows, t)

invalid(rows, now) ==
    {id \in rows : \/ grants[id].is_active = FALSE
                   \/ grants[id].date_start > now
                   \/ grants[id].date_expired < now}

\* JSONField __contains with a list on the right: every element of the
\* candidate occurs in the stored list
json_contains_list(target, cand) ==
    \A i \in DOMAIN cand : \E j \in DOMAIN target : target[j] = cand[i]

\* JSONField __contains with a string on the right: the stored list has it
json_contains_value(target, v) ==
    \E j \in DOMAIN target : target[j] = v

filter_by_accounts_overlap(rows, accounts) ==
    {id \in rows :
        \/ \E i \in DOMAIN accounts :
              json_contains_value(grants[id].accounts, accounts[i])
        \/ json_contains_value(grants[id].accounts, ALL)}

filter_by_accounts_unchained(rows, accounts) ==
    {id \in get_queryset :
        \/ json_contains_list(grants[id].accounts, accounts)
        \/ json_contains_value(grants[id].accounts, ALL)}

filter_by_accounts(rows, accounts) ==
    {id \in rows :
        \/ json_contains_list(grants[id].accounts, accounts)
        \/ json_contains_value(grants[id].accounts, ALL)}

\* ------------------------------------------------- querysets of rows
\* .distinct(): every row once, first occurrence kept
RECURSIVE distinct(_)
distinct(rows) ==
    IF rows = <<>> THEN <<>>
    ELSE LET front == distinct(SubSeq(rows, 1, Len(rows) - 1))
             last == rows[Len(rows)]
         IN  IF last \in Range(front) THEN front ELSE Append(front, last)

\* common.db.models.UnionQuerySet(qs1, qs2): SQL UNION of the two queries
UnionQuerySet(qs1, qs2) == distinct(qs1 \o qs2)

\* User.objects.filter(id__in=user_ids)
users_filter_id_in(user_ids) ==
    SelectSeq(UserTable, LAMBDA u : u \in Range(user_ids))

\* User.objects.filter(groups__id__in=group_ids): the join with the
\* membership table gives one row per (user, matching group) pair
RECURSIVE users_join_groups(_, _)
users_join_groups(i, group_ids) ==
    IF i > Len(UserTable) THEN <<>>
    ELSE LET u == UserTable[i]
             n == Cardinality({gr \in Range(group_ids) : u \in members[gr]})
         IN  [k \in 1..n |-> u] \o users_join_groups(i + 1, group_ids)

users_filter_groups_id_in(group_ids) == users_join_groups(1, group_ids)

get_all_users_chained(user_ids, group_ids) ==
    distinct(users_filter_id_in(user_ids))
        \o distinct(users_filter_groups_id_in(group_ids))

get_all_users(user_ids, group_ids) ==
    LET qs1 == distinct(users_filter_id_in(user_ids))
        qs2 == distinct(users_filter_groups_id_in(group_ids))
    IN  UnionQuerySet(qs1, qs2)

\* ------------------------------------------------------------- assets
is_key_prefix(k, key) ==
    /\ Len(k) <= Len(key)
    /\ SubSeq(key, 1, Len(k)) = k

\* Node.get_nodes_all_asset_ids_by_keys: the assets of the nodes with one
\* of the keys and of all the nodes below them
get_nodes_all_asset_ids_by_keys(keys) ==
    UNION {nodeAssets[n] :
              n \in {m \in Nodes : \E k \in keys : is_key_prefix(k, NodeKey[m])}}

get_all_assets_flat_overwrite(g) ==
    LET nodes_keys == {NodeKey[n] : n \in g.nodes}
        nodes_asset_ids == get_nodes_all_asset_ids_by_keys(nodes_keys)
    IN  IF nodes_keys = {} THEN g.assets ELSE nodes_asset_ids

\* get_all_assets(flat=True)
get_all_assets_flat(g) ==
    LET nodes_keys == {NodeKey[n] : n \in g.nodes}
        asset_ids == g.assets
        nodes_asset_ids == get_nodes_all_asset_ids_by_keys(nodes_keys)
    IN  asset_ids \cup nodes_asset_ids

\* get_all_assets(flat=False): Asset.objects.filter(id__in=asset_ids)
get_all_assets(g) ==
    SelectSeq(AssetTable, LAMBDA a : a \in get_all_assets_flat(g))

\* ----------------------------------------------------------- accounts
\* Account.objects: the rows of the table with their primary keys
account_objects ==
    [i \in DOMAIN accountTable |->
        [id |-> i, asset |-> accountTable[i].asset,
         name |-> accountTable[i].name,
         username |-> accountTable[i].username]]

\* the value of ('asset__name', 'name', 'username') for a row
order_key(row) ==
    <<Rank[AssetName[row.asset]], Rank[row.name], Rank[row.username]>>

key_less(a, b) ==
    \/ a[1] < b[1]
    \/ a[1] = b[1] /\ a[2] < b[2]
    \/ a[1] = b[1] /\ a[2] = b[2] /\ a[3] < b[3]

\* put row behind the rows of sorted whose key is not greater
insert_by_key(sorted, row) ==
    LET n == Cardinality({i \in DOMAIN sorted :
                            ~key_less(order_key(row), order_key(sorted[i]))})
    IN  SubSeq(sorted, 1, n) \o <<row>> \o SubSeq(sorted, n + 1, Len(sorted))

\* .order_by('asset__name', 'name', 'username')
RECURSIVE order_by(_)
order_by(rows) ==
    IF rows = <<>> THEN <<>>
    ELSE insert_by_key(order_by(SubSeq(rows, 1, Len(rows) - 1)),
                       rows[Len(rows)])

\* value in list, for a Python list
py_in(v, list) == \E i \in DOMAIN list : list[i] = v

get_all_accounts_any_asset(g) ==
    LET asset_ids == get_all_assets_flat(g)
        q(row) == \/ row.asset \in asset_ids
                  \/ /\ ~py_in(ALL, g.accounts)
                     /\ py_in(row.username, g.accounts)
    IN  order_by(SelectSeq(account_objects, q))

get_all_accounts_unordered(g) ==
    LET asset_ids == get_all_assets_flat(g)
        q(row) == /\ row.asset \in asset_ids
                  /\ \/ py_in(ALL, g.accounts)
                     \/ py_in(row.username, g.accounts)
    IN  SelectSeq(account_objects, q)

\* get_all_accounts(flat=False)
get_all_accounts(g) ==
    LET asset_ids == get_all_assets_flat(g)
        q(row) == /\ row.asset \in asset_ids
                  /\ \/ py_in(ALL, g.accounts)
                     \/ py_in(row.username, g.accounts)
    IN  order_by(SelectSeq(account_objects, q))

\* get_all_accounts(flat=True): accounts.values_list('id', flat=True)
get_all_accounts_flat(g) ==
    LET accounts == get_all_accounts(g)
    IN  [i \in DOMAIN accounts |-> accounts[i].id]

\* --------------------------------------------------------------- state
NoValid == [done |-> FALSE, t1 |-> 0, t2 |-> 0, rows |-> {}]
NoInvalid == [done |-> FALSE, t |-> 0, rows |-> {}]
NoIsValid == [done |-> FALSE, id |-> "g1", t |-> 0, expired |-> FALSE, value |-> FALSE]
NoVq == [t |-> 0, rows |-> {}]
NoUsers == [done |-> FALSE, user_ids |-> <<>>, group_ids |-> <<>>, rows |-> <<>>]
NoAssets == [done |-> FALSE, flat |-> FALSE, ids |-> {}, rows |-> <<>>]
NoAccounts == [done |-> FALSE, flat |-> FALSE, rows |-> <<>>, ids |-> <<>>]

InitTime ==
    /\ clock = 0
    /\ pc = "idle"
    /\ vq = NoVq
    /\ validRes = NoValid
    /\ invalidRes = NoInvalid
    /\ isValidRes = NoIsValid

InitChain ==
    /\ qs = get_queryset
    /\ chain = <<>>

InitRes ==
    /\ usersRes = NoUsers
    /\ assetsRes = NoAssets
    /\ accountsRes = NoAccounts

NoMembers == [gr \in Groups |-> {}]
NoNodeAssets == [n \in Nodes |-> {}]

\* two grants: the per-grant check and the valid / invalid partition
InitValidity ==
    /\ grants \in [{"g1", "g2"} -> TimeRows]
    /\ InitTime /\ InitChain /\ InitRes
    /\ req = <<>>
    /\ members = NoMembers
    /\ nodeAssets = NoNodeAssets
    /\ accountTable = <<>>

\* three grants: one call of valid() while the clock runs
InitValidCall ==
    /\ grants \in [{"g1", "g2", "g3"} -> TimeRows]
    /\ InitTime /\ InitChain /\ InitRes
    /\ req = <<>>
    /\ members = NoMembers
    /\ nodeAssets = NoNodeAssets
    /\ accountTable = <<>>

\* two grants with account lists, and the names a caller asks for
InitFilters ==
    /\ grants \in [{"g1", "g2"} -> AccountRows]
    /\ req \in SeqsUpTo(SpecNames, MaxReqLen)
    /\ InitTime /\ InitChain /\ InitRes
    /\ members = NoMembers
    /\ nodeAssets = NoNodeAssets
    /\ accountTable = <<>>

\* one grant with users and groups, and the membership of the groups
InitUsers ==
    /\ \E us \in SUBSET Users, gs \in SUBSET Groups :
          grants = [id \in {"g1"} |->
                       Grant(TRUE, 0, MaxTime + 1, <<>>, us, gs, {}, {})]
    /\ members \in [Groups -> SUBSET Users]
    /\ InitTime /\ InitChain /\ InitRes
    /\ req = <<>>
    /\ nodeAssets = NoNodeAssets
    /\ accountTable = <<>>

\* one grant with assets and nodes, and the assets of the nodes
InitAssets ==
    /\ \E as \in SUBSET Assets, ns \in SUBSET Nodes :
          grants = [id \in {"g1"} |->
                       Grant(TRUE, 0, MaxTime + 1, <<>>, {}, {}, as, ns)]
    /\ nodeAssets \in [Nodes -> SUBSET Assets]
    /\ InitTime /\ InitChain /\ InitRes
    /\ req = <<>>
    /\ members = NoMembers
    /\ accountTable = <<>>

AccountRowsOf(as) == [asset : as, name : AccountNames, username : AccountNames]

\* one grant with an account list, assets a1, a2 and node n1 above the node
\* that holds a2, and NumAccounts accounts on a1 and a2
InitAccounts ==
    /\ \E as \in SUBSET {"a1", "a2"}, ns \in SUBSET {"n1"},
          accs \in SeqsUpTo(SpecNames, MaxAccLen) :
          grants = [id \in {"g1"} |->
                       Grant(TRUE, 0, MaxTime + 1, accs, {}, {}, as, ns)]
    /\ nodeAssets = [n1 |-> {}, n2 |-> {"a2"}, n3 |-> {"a3"}]
    /\ accountTable \in [1..NumAccounts -> AccountRowsOf({"a1", "a2"})]
    /\ InitTime /\ InitChain /\ InitRes
    /\ req = <<>>
    /\ members = NoMembers

\* ------------------------------------------------------------- actions
\* the clock advances
Tick ==
    /\ clock < MaxTime
    /\ clock' = clock + 1
    /\ UNCHANGED <<grants, pc, vq, validRes, invalidRes, isValidRes>>
    /\ UNCHANGED <<chainVars, worldVars, resVars>>

\* valid(): self.active().filter(date_start__lt=timezone.now())
ValidLower ==
    /\ pc = "idle"
    /\ vq' = [t |-> clock, rows |-> valid_lower(get_queryset, clock)]
    /\ pc' = "valid_upper"
    /\ UNCHANGED <<clock, grants, validRes, invalidRes, isValidRes>>
    /\ UNCHANGED <<chainVars, worldVars, resVars>>

\* valid(): .filter(date_expired__gt=timezone.now())
ValidUpper ==
    /\ pc = "valid_upper"
    /\ validRes' = [done |-> TRUE, t1 |-> vq.t, t2 |-> clock,
                    rows |-> valid_upper(vq.rows, clock)]
    /\ pc' = "idle"
    /\ vq' = NoVq
    /\ UNCHANGED <<clock, grants, invalidRes, isValidRes>>
    /\ UNCHANGED <<chainVars, worldVars, resVars>>

Invalid ==
    /\ invalidRes' = [done |-> TRUE, t |-> clock,
                      rows |-> invalid(get_queryset, clock)]
    /\ UNCHANGED <<clock, grants, pc, vq, validRes, isValidRes>>
    /\ UNCHANGED <<chainVars, worldVars, resVars>>

IsValid ==
    \E id \in DOMAIN grants :
        /\ isValidRes' = [done |-> TRUE, id |-> id, t |-> clock,
                          expired |-> is_expired(grants[id], clock),
                          value |-> is_valid(grants[id], clock)]
        /\ UNCHANGED <<clock, grants, pc, vq, validRes, invalidRes>>
        /\ UNCHANGED <<chainVars, worldVars, resVars>>

\* objects.get_queryset(): a new chain starts from the whole table
GetQueryset ==
    /\ chain # <<>>
    /\ qs' = get_queryset
    /\ chain' = <<>>
    /\ UNCHANGED <<grants, req, timeVars, worldVars, resVars>>

Active ==
    /\ Len(chain) < MaxChain
    /\ qs' = active(qs)
    /\ chain' = Append(chain, "active")
    /\ UNCHANGED <<grants, req, timeVars, worldVars, resVars>>

Inactive ==
    /\ Len(chain) < MaxChain
    /\ qs' = inactive(qs)
    /\ chain' = Append(chain, "inactive")
    /\ UNCHANGED <<grants, req, timeVars, worldVars, resVars>>

FilterByAccounts ==
    /\ Len(chain) < MaxChain
    /\ qs' = filter_by_accounts(qs, req)
    /\ chain' = Append(chain, "filter_by_accounts")
    /\ UNCHANGED <<grants, req, timeVars, worldVars, resVars>>

\* list(values_list(...)) hands the ids back in an order the database picks
GetAllUsers ==
    \E user_ids \in Perms(grants["g1"].users),
       group_ids \in Perms(grants["g1"].user_groups) :
        /\ usersRes' = [done |-> TRUE, user_ids |-> user_ids,
                        group_ids |-> group_ids,
                        rows |-> get_all_users(user_ids, group_ids)]
        /\ UNCHANGED <<grants, assetsRes, accountsRes>>
        /\ UNCHANGED <<timeVars, chainVars, worldVars>>

GetAllAssetsFlat ==
    /\ assetsRes' = [done |-> TRUE, flat |-> TRUE,
                     ids |-> get_all_assets_flat(grants["g1"]),
                     rows |-> <<>>]
    /\ UNCHANGED <<grants, usersRes, accountsRes>>
    /\ UNCHANGED <<timeVars, chainVars, worldVars>>

GetAllAssets ==
    /\ assetsRes' = [done |-> TRUE, flat |-> FALSE, ids |-> {},
                     rows |-> get_all_assets(grants["g1"])]
    /\ UNCHANGED <<grants, usersRes, accountsRes>>
    /\ UNCHANGED <<timeVars, chainVars, worldVars>>

GetAllAccounts ==
    /\ accountsRes' = [done |-> TRUE, flat |-> FALSE,
                       rows |-> get_all_accounts(grants["g1"]),
                       ids |-> <<>>]
    /\ UNCHANGED <<grants, usersRes, assetsRes>>
    /\ UNCHANGED <<timeVars, chainVars, worldVars>>

GetAllAccountsFlat ==
    /\ accountsRes' = [done |-> TRUE, flat |-> TRUE, rows |-> <<>>,
                       ids |-> get_all_accounts_flat(grants["g1"])]
    /\ UNCHANGED <<grants, usersRes, assetsRes>>
    /\ UNCHANGED <<timeVars, chainVars, worldVars>>

\* ------------------------------------------------------ specifications
NextValidity == Tick \/ ValidLower \/ ValidUpper \/ Invalid \/ IsValid

SpecValidity == InitValidity /\ [][NextValidity]_vars

NextValidCall == Tick \/ ValidLower \/ ValidUpper

SpecValidCall == InitValidCall /\ [][NextValidCall]_vars

NextFilters == GetQueryset \/ Active \/ Inactive \/ FilterByAccounts

SpecFilters == InitFilters /\ [][NextFilters]_vars

NextUsers == GetAllUsers

SpecUsers == InitUsers /\ [][NextUsers]_vars

NextAssets == GetAllAssetsFlat \/ GetAllAssets

SpecAssets == InitAssets /\ [][NextAssets]_vars

NextAccounts == GetAllAccounts \/ GetAllAccountsFlat

SpecAccounts == InitAccounts /\ [][NextAccounts]_vars

\* -------------------------------------------------------------- claims
\* C1: is_valid evaluated at t is true exactly when the grant is active and
\* date_start < t < date_expired, both inequalities strict: not valid at
\* t = date_start, not valid at t = date_expired, never valid when inactive.
C1_IsValidStrictWindow ==
    isValidRes.done =>
        LET g == grants[isValidRes.id]
            t == isValidRes.t
        IN  /\ isValidRes.value =
                 (g.is_active /\ g.date_start < t /\ t < g.date_expired)
            /\ (t = g.date_start \/ t = g.date_expired) => ~isValidRes.value
            /\ ~g.is_active => ~isValidRes.value

\* an active grant evaluated exactly at its date_start, found not valid
C1_Witness ==
    /\ isValidRes.done
    /\ grants[isValidRes.id].is_active
    /\ grants[isValidRes.id].date_start = isValidRes.t
    /\ grants[isValidRes.id].date_expired > isValidRes.t
    /\ isValidRes.value = FALSE

\* valid() and invalid() were both answered with the same reading of the clock
SameInstant ==
    /\ validRes.done
    /\ invalidRes.done
    /\ validRes.t1 = invalidRes.t
    /\ validRes.t2 = invalidRes.t

\* C2: at one fixed instant valid() and invalid() together cover the whole
\* collection of grants.
C2_ValidInvalidCover ==
    SameInstant => validRes.rows \cup invalidRes.rows = DOMAIN grants

\* C3: at one fixed instant no grant is returned by both valid() and
\* invalid().
C3_ValidInvalidDisjoint ==
    SameInstant => validRes.rows \cap invalidRes.rows = {}

\* both queries answered at the same instant, each returning a grant
C3_Witness ==
    /\ SameInstant
    /\ validRes.rows # {}
    /\ invalidRes.rows # {}

\* C4: the result of one call of valid() is the set of active grants whose
\* window strictly contains one single instant t, also when the clock
\* advances while the query is built.
C4_ValidSingleInstant ==
    validRes.done =>
        \E t \in Dates :
            validRes.rows =
                {id \in DOMAIN grants :
                    /\ grants[id].is_active
                    /\ grants[id].date_start < t
                    /\ t < grants[id].date_expired}

\* C5: filter_by_accounts(N) on the whole table returns exactly the grants
\* whose account list contains every name of N, together with the grants
\* whose account list holds the wildcard.
C5_FilterByAccountsSubset ==
    chain = <<"filter_by_accounts">> =>
        qs = {id \in DOMAIN grants :
                 \/ Range(req) \subseteq Range(grants[id].accounts)
                 \/ ALL \in Range(grants[id].accounts)}

\* two names asked for: a grant without wildcard that lists both is returned,
\* a grant that lists only one of them is not
C5_Witness ==
    /\ chain = <<"filter_by_accounts">>
    /\ Cardinality(Range(req)) = 2
    /\ \E id \in qs :
          /\ ALL \notin Range(grants[id].accounts)
          /\ grants[id].accounts # req
    /\ \E id \in DOMAIN grants \ qs :
          Range(grants[id].accounts) \cap Range(req) # {}

\* C6: active().filter_by_accounts(N) and filter_by_accounts(N).active()
\* return the same grants, and so do the two chains with inactive().
C6_FiltersCommute ==
    /\ chain = <<"active", "filter_by_accounts">> =>
          qs = active(filter_by_accounts(get_queryset, req))
    /\ chain = <<"filter_by_accounts", "active">> =>
          qs = filter_by_accounts(active(get_queryset), req)
    /\ chain = <<"inactive", "filter_by_accounts">> =>
          qs = inactive(filter_by_accounts(get_queryset, req))
    /\ chain = <<"filter_by_accounts", "inactive">> =>
          qs = filter_by_accounts(inactive(get_queryset), req)

\* active() applied first, with an inactive grant that matches the names and
\* an active grant that does not
C6_Witness ==
    /\ chain = <<"active", "filter_by_accounts">>
    /\ \E id \in DOMAIN grants :
          /\ ~grants[id].is_active
          /\ Range(req) \subseteq Range(grants[id].accounts)
    /\ \E id \in DOMAIN grants :
          /\ grants[id].is_active
          /\ id \notin qs

\* the assets a grant reaches: its own and those of the nodes at or below
\* the nodes it references
ResolvedAssets(g) ==
    g.assets \cup
        {a \in Assets :
            \E n \in g.nodes, m \in Nodes :
                /\ is_key_prefix(NodeKey[n], NodeKey[m])
                /\ a \in nodeAssets[m]}

\* the primary keys get_all_accounts returned, in either output mode
AccountsResIds ==
    IF accountsRes.flat THEN accountsRes.ids
    ELSE [i \in DOMAIN accountsRes.rows |-> accountsRes.rows[i].id]

\* C7: get_all_accounts returns exactly the accounts on the resolved assets
\* that satisfy the account specification: all of them for the wildcard,
\* otherwise those whose username is in the grant's list.
C7_AccountsResolved ==
    accountsRes.done =>
        LET g == grants["g1"]
        IN  Range(AccountsResIds) =
                {i \in DOMAIN accountTable :
                    /\ accountTable[i].asset \in ResolvedAssets(g)
                    /\ \/ ALL \in Range(g.accounts)
                       \/ accountTable[i].username \in Range(g.accounts)}

\* an explicit list: an account reached through the node is returned, one on
\* an asset outside the resolved set and one with another username are not
C7_Witness ==
    /\ accountsRes.done
    /\ ALL \notin Range(grants["g1"].accounts)
    /\ \E i \in Range(AccountsResIds) :
          accountTable[i].asset \notin grants["g1"].assets
    /\ \E i \in DOMAIN accountTable :
          /\ accountTable[i].asset \notin ResolvedAssets(grants["g1"])
          /\ accountTable[i].username \in Range(grants["g1"].accounts)
    /\ \E i \in DOMAIN accountTable :
          /\ accountTable[i].asset \in ResolvedAssets(grants["g1"])
          /\ accountTable[i].username \notin Range(grants["g1"].accounts)

\* an empty asset set and an empty, non-wildcard name list give no account
C7_EmptyWitness ==
    /\ accountsRes.done
    /\ AccountsResIds = <<>>
    /\ ResolvedAssets(grants["g1"]) = {}

\* C8: get_all_users returns the users the grant references directly and
\* the members of every group it references, each user once, whatever the
\* order of the id lists.
C8_UsersUnion ==
    usersRes.done =>
        LET g == grants["g1"]
            rows == usersRes.rows
        IN  /\ Range(rows) =
                 g.users \cup UNION {members[gr] : gr \in g.user_groups}
            /\ \A i, j \in DOMAIN rows : i # j => rows[i] # rows[j]

\* a user referenced directly and through a group, a user in both groups,
\* and id lists that are not in storage order
C8_Witness ==
    /\ usersRes.done
    /\ \E u \in grants["g1"].users :
          \E gr \in grants["g1"].user_groups : u \in members[gr]
    /\ grants["g1"].user_groups = Groups
    /\ members["G1"] \cap members["G2"] # {}
    /\ Len(usersRes.user_ids) = 2
    /\ usersRes.user_ids[1] = "u3"
    /\ usersRes.group_ids = <<"G2", "G1">>

\* C9: get_all_assets(flat=True) returns the union of the directly
\* referenced asset ids and the asset ids of the referenced nodes and the
\* nodes below them; it always contains every directly referenced id.
C9_AssetsUnion ==
    (assetsRes.done /\ assetsRes.flat) =>
        /\ assetsRes.ids = ResolvedAssets(grants["g1"])
        /\ grants["g1"].assets \subseteq assetsRes.ids

\* direct assets and a node whose child adds an asset, one asset both
\* direct and below the node
C9_Witness ==
    /\ assetsRes.done /\ assetsRes.flat
    /\ grants["g1"].nodes = {"n1"}
    /\ grants["g1"].assets # {}
    /\ grants["g1"].assets \cap nodeAssets["n2"] # {}
    /\ nodeAssets["n2"] \ (grants["g1"].assets \cup nodeAssets["n1"]) # {}
    /\ grants["g1"].assets \ (nodeAssets["n1"] \cup nodeAssets["n2"]) # {}

\* the ordering key of the account with primary key i
KeyOfAccount(i) ==
    <<Rank[AssetName[accountTable[i].asset]],
      Rank[accountTable[i].name],
      Rank[accountTable[i].username]>>

\* key a comes before or with key b: asset name, then name, then username
KeyNotAfter(a, b) ==
    \/ a[1] < b[1]
    \/ a[1] = b[1] /\ a[2] < b[2]
    \/ a[1] = b[1] /\ a[2] = b[2] /\ a[3] <= b[3]

\* C10: get_all_accounts lists each account once, in non-decreasing order
\* of (asset name, account name, username), in both output modes.
C10_AccountsOrdered ==
    accountsRes.done =>
        LET ids == AccountsResIds
        IN  /\ \A i, j \in DOMAIN ids : i # j => ids[i] # ids[j]
            /\ \A i, j \in DOMAIN ids :
                  i < j => KeyNotAfter(KeyOfAccount(ids[i]), KeyOfAccount(ids[j]))

\* flat mode, all accounts returned, in an order that reverses storage order
C10_Witness ==
    /\ accountsRes.done
    /\ accountsRes.flat
    /\ Len(accountsRes.ids) = Len(accountTable)
    /\ accountsRes.ids[1] = Len(accountTable)
    /\ accountsRes.ids[Len(accountTable)] = 1

\* hydrated mode, rows returned in an order that differs from storage order
C10_HydratedWitness ==
    /\ accountsRes.done
    /\ ~accountsRes.flat
    /\ Len(accountsRes.rows) >= 2
    /\ accountsRes.rows[1].id > accountsRes.rows[2].id

====
